---- MODULE Spec2Model ----
(***************************************************************************)
(* Employee-curator: scripts/clean_and_write.py (Stage A, clean) and       *)
(* scripts/write_sample.py (Stage B, sample).                              *)
(*                                                                         *)
(* Text is a tuple of one-character strings.  A table cell in memory is a  *)
(* tagged value [k, s, n] (kind, text, numbers): NA (pandas NaN / NaT /     *)
(* None), Str(text), Whole(n), Num(n) (a float, in hundredths),            *)
(* Date(y, m, d).  A file on disk is a header (tuple of column names) and  *)
(* rows of text cells.                                                     *)
(***************************************************************************)
EXTENDS Integers, Sequences, FiniteSets, TLC

\* ------------------------------------------------------------------ bounds
MaxRows == 2          \* rows of the exhaustively enumerated input tables
MaxLongRows == 12     \* rows of the generated long roster (exceeds head(10))

\* ------------------------------------------------------------- characters
DigitChars == <<"0", "1", "2", "3", "4", "5", "6", "7", "8", "9">>
Lowers == <<"a", "b", "c", "d", "e", "f", "g", "h", "i", "j", "k", "l", "m",
            "n", "o", "p", "q", "r", "s", "t", "u", "v", "w", "x", "y", "z">>
Uppers == <<"A", "B", "C", "D", "E", "F", "G", "H", "I", "J", "K", "L", "M",
            "N", "O", "P", "Q", "R", "S", "T", "U", "V", "W", "X", "Y", "Z">>

Range(s) == {s[i] : i \in DOMAIN s}
IsDigit(c) == c \in Range(DigitChars)
DigitVal(c) == (CHOOSE i \in DOMAIN DigitChars : DigitChars[i] = c) - 1
IsUpper(c) == c \in Range(Uppers)
IsLower(c) == c \in Range(Lowers)
IsCased(c) == IsUpper(c) \/ IsLower(c)
LowerChar(c) == IF IsUpper(c) THEN Lowers[CHOOSE i \in DOMAIN Uppers : Uppers[i] = c] ELSE c
UpperChar(c) == IF IsLower(c) THEN Uppers[CHOOSE i \in DOMAIN Lowers : Lowers[i] = c] ELSE c

\* ------------------------------------------------------------ cell values
NA == [k |-> "na", s |-> <<>>, n |-> <<>>]
Str(t) == [k |-> "str", s |-> t, n |-> <<>>]
Num(n) == [k |-> "num", s |-> <<>>, n |-> <<n>>]
Whole(n) == [k |-> "int", s |-> <<>>, n |-> <<n>>]
Date(y, m, d) == [k |-> "date", s |-> <<>>, n |-> <<y, m, d>>]
IsNA(x) == x.k = "na"

\* Series.fillna(value)
FillNa(x, t) == IF IsNA(x) THEN Str(t) ELSE x

\* Series.astype(str): NaN becomes the three-character string "nan"
AsTypeStr(x) == IF IsNA(x) THEN Str(<<"n", "a", "n">>) ELSE x

\* str.lower / str.title / str.strip on text
LowerText(t) == [i \in DOMAIN t |-> LowerChar(t[i])]
TitleText(t) ==
    [i \in DOMAIN t |->
        IF i > 1 /\ IsCased(t[i - 1]) THEN LowerChar(t[i]) ELSE UpperChar(t[i])]
RECURSIVE LStrip(_)
LStrip(t) == IF t # <<>> /\ Head(t) = " " THEN LStrip(Tail(t)) ELSE t
RECURSIVE RStrip(_)
RStrip(t) ==
    IF t # <<>> /\ t[Len(t)] = " " THEN RStrip(SubSeq(t, 1, Len(t) - 1)) ELSE t
StripText(t) == RStrip(LStrip(t))

\* str.replace(r"[\$,]", "", regex=True)
RECURSIVE StripCurrency(_)
StripCurrency(t) ==
    IF t = <<>> THEN <<>>
    ELSE IF Head(t) \in {"$", ","} THEN StripCurrency(Tail(t))
    ELSE <<Head(t)>> \o StripCurrency(Tail(t))

\* digits -> natural number
RECURSIVE DigitsVal(_)
DigitsVal(t) ==
    IF t = <<>> THEN 0 ELSE 10 * DigitsVal(SubSeq(t, 1, Len(t) - 1)) + DigitVal(t[Len(t)])
AllDigits(t) == \A i \in DOMAIN t : IsDigit(t[i])

\* natural number -> digits
RECURSIVE NatText(_)
NatText(n) ==
    IF n < 10 THEN <<DigitChars[n + 1]>> ELSE NatText(n \div 10) \o <<DigitChars[(n % 10) + 1]>>
Pad2(n) == IF n < 10 THEN <<"0">> \o NatText(n) ELSE NatText(n)

\* Decimal text with at most two fractional digits: d+ | d+.d{0,2} | d*.d{1,2}
DotPos(t) == IF \E i \in DOMAIN t : t[i] = "." THEN CHOOSE i \in DOMAIN t : t[i] = "." ELSE 0
IsIntText(t) == t # <<>> /\ AllDigits(t)
IsDecimalText(t) ==
    \/ IsIntText(t)
    \/ /\ DotPos(t) > 0
       /\ AllDigits(SubSeq(t, 1, DotPos(t) - 1))
       /\ AllDigits(SubSeq(t, DotPos(t) + 1, Len(t)))
       /\ Len(t) - DotPos(t) <= 2
       /\ Len(t) > 1
\* value of a decimal text, in hundredths
DecimalVal(t) ==
    IF DotPos(t) = 0 THEN 100 * DigitsVal(t)
    ELSE LET ip == SubSeq(t, 1, DotPos(t) - 1)
             fp == SubSeq(t, DotPos(t) + 1, Len(t))
         IN 100 * DigitsVal(ip)
              + (IF Len(fp) = 1 THEN 10 * DigitsVal(fp) ELSE DigitsVal(fp))

\* parse of one string as a number: an integer, a float, or NaN
ToNumeric(x) ==
    IF IsNA(x) THEN NA
    ELSE IF IsIntText(x.s) THEN Whole(DigitsVal(x.s))
    ELSE IF IsDecimalText(x.s) THEN Num(DecimalVal(x.s))
    ELSE NA

\* a numeric column holding a NaN or a float is float64: its integers widen
Widen(cells) ==
    IF \E i \in DOMAIN cells : cells[i].k \in {"na", "num"}
    THEN [i \in DOMAIN cells |-> IF cells[i].k = "int" THEN Num(100 * cells[i].n[1]) ELSE cells[i]]
    ELSE cells

\* value of a numeric cell in hundredths
Hundredths(x) == IF x.k = "int" THEN 100 * x.n[1] ELSE x.n[1]

\* ------------------------------------------------------------------ dates
IsLeap(y) == (y % 4 = 0 /\ y % 100 # 0) \/ y % 400 = 0
DaysInMonth(y, m) ==
    IF m = 2 THEN (IF IsLeap(y) THEN 29 ELSE 28)
    ELSE IF m \in {4, 6, 9, 11} THEN 30 ELSE 31

\* pd.to_datetime(errors="coerce").dt.date on one value (ISO YYYY-MM-DD text)
ToDate(x) ==
    IF IsNA(x) THEN NA
    ELSE LET t == x.s IN
         IF /\ Len(t) = 10
            /\ t[5] = "-" /\ t[8] = "-"
            /\ AllDigits(SubSeq(t, 1, 4))
            /\ AllDigits(SubSeq(t, 6, 7))
            /\ AllDigits(SubSeq(t, 9, 10))
         THEN LET y == DigitsVal(SubSeq(t, 1, 4))
                  m == DigitsVal(SubSeq(t, 6, 7))
                  d == DigitsVal(SubSeq(t, 9, 10))
              IN IF y >= 1678 /\ y <= 2261 /\ m \in 1..12 /\ d >= 1 /\ d <= DaysInMonth(y, m)
                 THEN Date(y, m, d) ELSE NA
         ELSE NA

\* tuple comparison (y, m, d) <= (y2, m2, d2), and (m, d) < (m2, d2)
DateLE(a, b) ==
    \/ a[1] < b[1]
    \/ a[1] = b[1] /\ a[2] < b[2]
    \/ a[1] = b[1] /\ a[2] = b[2] /\ a[3] <= b[3]
MonthDayLT(a, b) == a[2] < b[2] \/ (a[2] = b[2] /\ a[3] < b[3])

\* days since 1970-01-01 of a calendar date
DayNumber(a) ==
    LET y == IF a[2] <= 2 THEN a[1] - 1 ELSE a[1]
        era == y \div 400
        yoe == y - era * 400
        mp == IF a[2] > 2 THEN a[2] - 3 ELSE a[2] + 9
        doy == (153 * mp + 2) \div 5 + a[3] - 1
        doe == yoe * 365 + yoe \div 4 - yoe \div 100 + doy
    IN era * 146097 + doe - 719468


\* ---------------------------------------------------------------- columns
\* columns of the raw roster (data/input/employees_raw.csv)
RawCols == <<"employee_id", "first_name", "last_name", "email", "hire_date",
             "job_title", "department", "salary", "manager_id", "address",
             "city", "state", "zip_code", "birth_date", "status">>

final_cols == <<"employee_id", "first_name", "last_name", "full_name", "email",
                "email_domain", "hire_date", "job_title", "department", "salary",
                "salary_band", "manager_id", "address", "city", "state",
                "zip_code", "birth_date", "age", "tenure_years", "status",
                "created_at", "updated_at">>

cols == <<"employee_id", "full_name", "email", "salary", "salary_band", "age",
          "tenure_years", "department">>

SampleSize == 10

\* ----------------------------------------------------------------- inputs
\* Raw rows the input tables are built from (text cells; "" is an empty cell).
BaseRow ==
    [c \in Range(RawCols) |->
        CASE c = "first_name" -> <<"j", "A", "N", "E">>
          [] c = "last_name" -> <<"o", "'", "n", "e", "i", "l", " ", "d">>
          [] c = "job_title" -> <<"d", "e", "v">>
          [] c = "department" -> <<"e", "n", "g">>
          [] c = "manager_id" -> <<"M", "1">>
          [] c = "city" -> <<"n", "y", "c">>
          [] c = "state" -> <<"N", "Y">>
          [] c = "zip_code" -> <<"0", "1">>
          [] OTHER -> <<>>]
Row1 ==
    [BaseRow EXCEPT
        !["employee_id"] = <<"E", "1">>,
        !["email"] = <<" ", "J", ".", "D", "@", "E", "x", ".", "C", "O", "M", " ">>,
        !["salary"] = <<"$", "4", "5", ",", "0", "0", "0">>,
        !["hire_date"] = <<"2", "0", "2", "0", "-", "0", "1", "-", "0", "1">>,
        !["birth_date"] = <<"2", "0", "0", "0", "-", "0", "3", "-", "1", "5">>]
Row2 ==
    [BaseRow EXCEPT
        !["employee_id"] = <<"E", "1">>,
        !["email"] = <<>>,
        !["salary"] = <<"$", "9", "0", ",", "0", "0", "0">>,
        !["hire_date"] = <<"2", "0", "2", "0", "-", "0", "1", "-", "0", "1">>,
        !["birth_date"] = <<>>,
        !["first_name"] = <<>>]
Row3 ==
    [BaseRow EXCEPT
        !["employee_id"] = <<"E", "2">>,
        !["email"] = <<"a", "@", "b", "@", "c">>,
        !["salary"] = <<"a", "b", "c">>,
        !["hire_date"] = <<"2", "0", "2", "4", "-", "0", "3", "-", "1", "5">>,
        !["birth_date"] = <<"2", "0", "0", "0", "-", "0", "2", "-", "3", "0">>,
        !["status"] = <<"L", "e", "f", "t">>]
Row4 ==
    [BaseRow EXCEPT
        !["employee_id"] = <<"0", "7">>,
        !["email"] = <<"n", "o", "a", "t">>,
        !["salary"] = <<"5", "0", "0", "0", "0">>,
        !["hire_date"] = <<"s", "o", "o", "n">>,
        !["birth_date"] = <<"2", "0", "0", "0", "-", "0", "3", "-", "1", "5">>,
        !["department"] = <<>>]
Row5 ==
    [BaseRow EXCEPT
        !["employee_id"] = <<"7">>,
        !["email"] = <<"x", "@">>,
        !["salary"] = <<"8", "0", "0", "0", "0">>,
        !["hire_date"] = <<"2", "0", "2", "4", "-", "0", "3", "-", "1", "4">>,
        !["birth_date"] = <<"1", "9", "9", "0", "-", "1", "2", "-", "3", "1">>]
Row6 ==
    [BaseRow EXCEPT
        !["employee_id"] = <<"7">>,
        !["email"] = <<>>,
        !["salary"] = <<>>,
        !["hire_date"] = <<>>,
        !["birth_date"] = <<>>,
        !["last_name"] = <<>>]
Row7 ==
    [BaseRow EXCEPT
        !["employee_id"] = <<>>,
        !["email"] = <<"q", "@", "r", ".", "i", "o">>,
        !["salary"] = <<"4", "9", "9", "9", "9", ".", "9", "9">>,
        !["hire_date"] = <<"2", "0", "2", "4", "-", "0", "1", "-", "0", "1">>,
        !["birth_date"] = <<"1", "9", "9", "6", "-", "0", "2", "-", "2", "9">>]
Row8 ==
    [BaseRow EXCEPT
        !["employee_id"] = <<"E", "3">>,
        !["email"] = <<"Z", "@", "Y">>,
        !["salary"] = <<"7", "9", "9", "9", "9", ".", "9", "9">>,
        !["hire_date"] = <<"2", "0", "1", "9", "-", "0", "6", "-", "3", "0">>,
        !["birth_date"] = <<"2", "0", "2", "4", "-", "1", "3", "-", "0", "1">>,
        !["address"] = <<"1", " ", "a", " ", "s", "t">>]

RawRows == {Row1, Row2, Row3, Row4, Row5, Row6, Row7, Row8}

RECURSIVE SeqsUpTo(_, _)
SeqsUpTo(S, n) ==
    IF n = 0 THEN {<<>>}
    ELSE LET P == SeqsUpTo(S, n - 1)
         IN P \cup {Append(p, x) : p \in {q \in P : Len(q) = n - 1}, x \in S}

\* a long roster with distinct ids: rows cycle through four raw rows
LongPattern == <<Row1, Row8, Row4, Row7>>
LongId(i) == <<(IF i < 10 THEN "E" ELSE "F"), DigitChars[(i % 10) + 1]>>
LongRow(i) == [LongPattern[(i % 4) + 1] EXCEPT !["employee_id"] = LongId(i)]
LongTable(n) == [i \in 1..n |-> LongRow(i)]

\* headers the input file may carry: all raw columns, or one column absent
DroppedCols == {{}, {"department"}, {"address"}, {"email"}, {"salary"}, {"hire_date"}}
HeaderWithout(D) == SelectSeq(RawCols, LAMBDA c : c \notin D)
Restrict(r, h) == [c \in Range(h) |-> r[c]]
MkFile(h, rs) == [exists |-> TRUE, header |-> h, rows |-> [i \in DOMAIN rs |-> Restrict(rs[i], h)]]
NoFile == [exists |-> FALSE, header |-> <<>>, rows |-> <<>>]

RawFiles ==
    {MkFile(HeaderWithout(D), rs) : D \in DroppedCols, rs \in SeqsUpTo(RawRows, MaxRows)}
      \cup {MkFile(RawCols, LongTable(n)) : n \in (SampleSize - 2)..MaxLongRows}
      \cup {NoFile}

\* calendar dates (UTC) on which the pipeline may run
RunDates == {<<2024, 1, 1>>, <<2024, 3, 14>>, <<2024, 3, 15>>}
\* datetime.now().isoformat() strings
Timestamps == {<<"T", "1">>, <<"T", "2">>}


\* --------------------------------------------------------- derived fields
\* (mutant) birthday compared with <= instead of <
calc_age_le(birth, tdy) ==
    IF IsNA(birth) THEN NA
    ELSE LET delta == tdy[1] - birth.n[1]
         IN IF MonthDayLT(tdy, birth.n) \/ (tdy[2] = birth.n[2] /\ tdy[3] = birth.n[3])
            THEN Whole(delta - 1) ELSE Whole(delta)

\* calc_age(birth)
calc_age(birth, tdy) ==
    IF IsNA(birth) THEN NA
    ELSE LET delta == tdy[1] - birth.n[1]
         IN IF MonthDayLT(tdy, birth.n) THEN Whole(delta - 1) ELSE Whole(delta)

\* (mutant) the quotient truncated to one decimal instead of rounded
tenure_years_trunc(hire, tdy) ==
    IF IsNA(hire) THEN NA
    ELSE LET days == DayNumber(tdy) - DayNumber(hire.n)
         IN Num(10 * ((40 * days) \div 1461))

\* (today - hire_date) / Timedelta(days=365.25), .round(1); Num is in hundredths.
\* 10 * days / 365.25 = 40 * days / 1461 never lies halfway between two integers.
tenure_years(hire, tdy) ==
    IF IsNA(hire) THEN NA
    ELSE LET days == DayNumber(tdy) - DayNumber(hire.n)
         IN Num(10 * ((80 * days + 1461) \div 2922))

\* (mutant) no isna guard: NaN compares false and falls through to Senior
salary_band_nonan(sal) ==
    IF ~IsNA(sal) /\ Hundredths(sal) < 50000 * 100 THEN "Junior"
    ELSE IF ~IsNA(sal) /\ Hundredths(sal) < 80000 * 100 THEN "Mid"
    ELSE "Senior"

\* (mutant) band boundaries exclusive on the lower bound
salary_band_excl(sal) ==
    IF IsNA(sal) THEN "Unknown"
    ELSE IF Hundredths(sal) <= 50000 * 100 THEN "Junior"
    ELSE IF Hundredths(sal) <= 80000 * 100 THEN "Mid"
    ELSE "Senior"

\* salary_band(sal)
salary_band(sal) ==
    IF IsNA(sal) THEN "Unknown"
    ELSE IF Hundredths(sal) < 50000 * 100 THEN "Junior"
    ELSE IF Hundredths(sal) < 80000 * 100 THEN "Mid"
    ELSE "Senior"

\* df["email"].str.extract(r"@(.+)$", expand=False)
ExtractDomain(x) ==
    IF IsNA(x) THEN NA
    ELSE LET t == x.s
             at == {i \in 1..(Len(t) - 1) : t[i] = "@"}
         IN IF at = {} THEN NA
            ELSE Str(SubSeq(t, (CHOOSE i \in at : \A j \in at : i <= j) + 1, Len(t)))

\* pandas' default NA strings (those spelt in the model's alphabet)
NaValues == {<<>>, <<"n", "a", "n">>, <<"N", "a", "N">>, <<"N", "A">>,
             <<"n", "u", "l", "l">>, <<"N", "U", "L", "L">>, <<"N", "o", "n", "e">>,
             <<"n", "/", "a">>, <<"N", "/", "A">>}

\* pd.read_csv(in_path, dtype=str): one cell
ReadStrCell(t) == IF t \in NaValues THEN NA ELSE Str(t)

\* ----------------------------------------------------------- table helpers
RECURSIVE SelectIdx(_, _)
SelectIdx(s, I) ==
    IF I = {} THEN <<>>
    ELSE LET m == CHOOSE i \in I : \A j \in I : i <= j
         IN <<s[m]>> \o SelectIdx(s, I \ {m})

\* df[c] = F(row) for every row
Assign(d, c, F(_)) ==
    [cols |-> d.cols \cup {c},
     rows |-> [i \in DOMAIN d.rows |-> (c :> F(d.rows[i])) @@ d.rows[i]]]

\* the column c of d takes the dtype its values force (int64 or float64)
WidenCol(d, c) ==
    LET w == Widen([i \in DOMAIN d.rows |-> d.rows[i][c]])
    IN [d EXCEPT !.rows = [i \in DOMAIN d.rows |-> [d.rows[i] EXCEPT ![c] = w[i]]]]

\* (mutant) keep="last"
drop_duplicates_last(rows, key) ==
    SelectIdx(rows, {i \in DOMAIN rows : \A j \in (i + 1)..Len(rows) : rows[j][key] # rows[i][key]})

\* DataFrame.drop_duplicates(subset=[key], keep="first")
drop_duplicates(rows, key) ==
    SelectIdx(rows, {i \in DOMAIN rows : \A j \in 1..(i - 1) : rows[j][key] # rows[i][key]})

\* (mutant) a strict comparison: hire_date < today
KeepHireStrict(h, tdy) == IsNA(h) \/ (DateLE(h.n, tdy) /\ h.n # tdy)

\* df[df["hire_date"].isna() | (df["hire_date"] <= today)]
KeepHire(h, tdy) == IsNA(h) \/ DateLE(h.n, tdy)
FilterFuture(rows, tdy) ==
    SelectIdx(rows, {i \in DOMAIN rows : KeepHire(rows[i]["hire_date"], tdy)})

\* DataFrame.reindex(columns=final_cols)
Reindex(d, cs) ==
    [cols |-> Range(cs),
     rows |-> [i \in DOMAIN d.rows |->
                 [c \in Range(cs) |-> IF c \in d.cols THEN d.rows[i][c] ELSE NA]]]

\* ------------------------------------------------------------------ state
VARIABLES
    rawFile,      \* data/input/employees_raw.csv
    today,        \* the UTC calendar date of the run
    pcA,          \* position of clean_and_write.py
    df,           \* its in-memory table
    cleanFile,    \* output/employees_clean.csv
    pcB,          \* position of write_sample.py
    pdf,          \* its in-memory table
    sampleFile    \* output/employees_sample.csv

vars == <<rawFile, today, pcA, df, cleanFile, pcB, pdf, sampleFile>>
varsB == <<pcB, pdf, sampleFile>>

EmptyTable == [cols |-> {}, rows |-> <<>>]

Init ==
    /\ rawFile \in RawFiles
    /\ today \in RunDates
    /\ pcA = "read"
    /\ df = EmptyTable
    /\ cleanFile = NoFile
    /\ pcB = "idle"
    /\ pdf = EmptyTable
    /\ sampleFile = NoFile

\* a step of Stage A that needs columns `need`: KeyError when one is absent
StepA(from, to, need, d) ==
    /\ pcA = from
    /\ IF need \subseteq df.cols
       THEN pcA' = to /\ df' = d
       ELSE pcA' = "failed" /\ df' = df
    /\ UNCHANGED <<rawFile, today, cleanFile, varsB>>

\* df = pd.read_csv(in_path, dtype=str)
ReadRaw ==
    /\ pcA = "read"
    /\ IF rawFile.exists
       THEN /\ pcA' = "dedup"
            /\ df' = [cols |-> Range(rawFile.header),
                      rows |-> [i \in DOMAIN rawFile.rows |->
                                  [c \in Range(rawFile.header) |-> ReadStrCell(rawFile.rows[i][c])]]]
       ELSE pcA' = "failed" /\ df' = df
    /\ UNCHANGED <<rawFile, today, cleanFile, varsB>>

DropDuplicates ==
    StepA("dedup", "fill", {"employee_id"},
          [df EXCEPT !.rows = drop_duplicates(df.rows, "employee_id")])

FillRow(r) ==
    [r EXCEPT !["address"] = FillNa(@, <<>>),
              !["city"] = FillNa(@, <<>>),
              !["state"] = FillNa(@, <<>>),
              !["zip_code"] = FillNa(@, <<>>),
              !["status"] = FillNa(@, <<"A", "c", "t", "i", "v", "e">>)]
FillMissing ==
    StepA("fill", "names", {"address", "city", "state", "zip_code", "status"},
          [df EXCEPT !.rows = [i \in DOMAIN df.rows |-> FillRow(df.rows[i])]])

Title(x) == IF IsNA(x) THEN NA ELSE Str(TitleText(x.s))
FullName(r) == Str(FillNa(r["first_name"], <<>>).s \o <<" ">> \o FillNa(r["last_name"], <<>>).s)
NormalizeNames ==
    StepA("names", "email", {"first_name", "last_name"},
          Assign([df EXCEPT !.rows = [i \in DOMAIN df.rows |->
                     [df.rows[i] EXCEPT !["first_name"] = Title(@), !["last_name"] = Title(@)]]],
                 "full_name", FullName))

NormEmail(x) == Str(LowerText(StripText(AsTypeStr(x).s)))
EmailOf(r) == NormEmail(r["email"])
DomainOf(r) == FillNa(ExtractDomain(r["email"]), <<>>)
NormalizeEmail ==
    StepA("email", "salary", {"email"},
          Assign(Assign(df, "email", EmailOf), "email_domain", DomainOf))

CleanSalaryCell(x) == ToNumeric(Str(StripCurrency(AsTypeStr(x).s)))
SalaryOf(r) == CleanSalaryCell(r["salary"])
CleanSalary ==
    StepA("salary", "dates", {"salary"}, WidenCol(Assign(df, "salary", SalaryOf), "salary"))

HireOf(r) == ToDate(r["hire_date"])
BirthOf(r) == ToDate(r["birth_date"])
\* line 37 raises before line 38 is reached when hire_date is absent
ParseDates ==
    StepA("dates", "filter", {"hire_date", "birth_date"},
          Assign(Assign(df, "hire_date", HireOf), "birth_date", BirthOf))

RemoveFutureHires ==
    StepA("filter", "age", {"hire_date"},
          [df EXCEPT !.rows = FilterFuture(df.rows, today)])

AgeOf(r) == calc_age(r["birth_date"], today)
CalcAge == StepA("age", "tenure", {"birth_date"}, WidenCol(Assign(df, "age", AgeOf), "age"))

TenureOf(r) == tenure_years(r["hire_date"], today)
Tenure == StepA("tenure", "band", {"hire_date"}, Assign(df, "tenure_years", TenureOf))

BandOf(r) == Str(<<salary_band(r["salary"])>>)
SalaryBands == StepA("band", "stamp", {"salary"}, Assign(df, "salary_band", BandOf))

\* ts = datetime.now().isoformat(); created_at = updated_at = ts
StampRows(d, ts) ==
    [cols |-> d.cols \cup {"created_at", "updated_at"},
     rows |-> [i \in DOMAIN d.rows |->
                 ("created_at" :> Str(ts)) @@ ("updated_at" :> Str(ts)) @@ d.rows[i]]]
StampTimes == \E ts \in Timestamps : StepA("stamp", "reindex", {}, StampRows(df, ts))

\* out = df.reindex(columns=final_cols)
Project == StepA("reindex", "to_csv", {}, Reindex(df, final_cols))


\* ------------------------------------------------------------ CSV writing
FracText(h) ==
    IF h % 100 = 0 THEN <<"0">>
    ELSE IF h % 10 = 0 THEN <<DigitChars[((h % 100) \div 10) + 1]>>
    ELSE Pad2(h % 100)
\* to_csv of one cell: NaN as the empty text, floats with their fraction
RenderCell(x) ==
    CASE x.k = "na" -> <<>>
      [] x.k = "str" -> x.s
      [] x.k = "int" -> NatText(x.n[1])
      [] x.k = "num" -> NatText(x.n[1] \div 100) \o <<".">> \o FracText(x.n[1])
      [] x.k = "date" -> NatText(x.n[1]) \o <<"-">> \o Pad2(x.n[2]) \o <<"-">> \o Pad2(x.n[3])
RenderRow(r, hdr) == [c \in Range(hdr) |-> RenderCell(r[c])]

\* DataFrame.to_csv(out_path, index=False) writes straight into out_path:
\* the file is created (truncated) with its header, rows follow, then close.
OpenClean ==
    /\ pcA = "to_csv"
    /\ cleanFile' = [exists |-> TRUE, header |-> final_cols, rows |-> <<>>]
    /\ pcA' = "writing"
    /\ UNCHANGED <<rawFile, today, df, varsB>>

WriteCleanRow ==
    /\ pcA = "writing"
    /\ Len(cleanFile.rows) < Len(df.rows)
    /\ cleanFile' = [cleanFile EXCEPT
                       !.rows = Append(@, RenderRow(df.rows[Len(@) + 1], final_cols))]
    /\ UNCHANGED <<rawFile, today, pcA, df, varsB>>

CloseClean ==
    /\ pcA = "writing"
    /\ Len(cleanFile.rows) = Len(df.rows)
    /\ pcA' = "done"
    /\ UNCHANGED <<rawFile, today, df, cleanFile, varsB>>

\* an I/O error (disk full, process killed) while to_csv runs
WriteFailA ==
    /\ pcA \in {"to_csv", "writing"}
    /\ pcA' = "failed"
    /\ UNCHANGED <<rawFile, today, df, cleanFile, varsB>>

\* ---------------------------------------------------------------- Stage B
\* pd.read_csv(in_path): each column is numeric when all its non-NA cells
\* parse as numbers, otherwise a column of strings
InferCol(cells) ==
    IF \A i \in DOMAIN cells : cells[i] \in NaValues \/ IsDecimalText(cells[i])
    THEN Widen([i \in DOMAIN cells |->
                  IF cells[i] \in NaValues THEN NA ELSE ToNumeric(Str(cells[i]))])
    ELSE [i \in DOMAIN cells |-> ReadStrCell(cells[i])]

read_csv(f) ==
    LET col == [c \in Range(f.header) |-> InferCol([i \in DOMAIN f.rows |-> f.rows[i][c]])]
    IN [cols |-> Range(f.header),
        rows |-> [i \in DOMAIN f.rows |-> [c \in Range(f.header) |-> col[c][i]]]]

\* df[cols].head(10)
Head10(d, cs) ==
    [cols |-> Range(cs),
     rows |-> [i \in 1..(IF Len(d.rows) < SampleSize THEN Len(d.rows) ELSE SampleSize) |->
                 [c \in Range(cs) |-> d.rows[i][c]]]]

\* Stage B is started once a run of Stage A has ended
ReadClean ==
    /\ pcB = "idle"
    /\ pcA \in {"done", "failed"}
    /\ IF cleanFile.exists
       THEN pcB' = "select" /\ pdf' = read_csv(cleanFile)
       ELSE pcB' = "failed" /\ pdf' = pdf
    /\ UNCHANGED <<rawFile, today, pcA, df, cleanFile, sampleFile>>

SelectHead ==
    /\ pcB = "select"
    /\ Range(cols) \subseteq pdf.cols
    /\ pdf' = Head10(pdf, cols)
    /\ pcB' = "to_csv"
    /\ UNCHANGED <<rawFile, today, pcA, df, cleanFile, sampleFile>>

OpenSample ==
    /\ pcB = "to_csv"
    /\ sampleFile' = [exists |-> TRUE, header |-> cols, rows |-> <<>>]
    /\ pcB' = "writing"
    /\ UNCHANGED <<rawFile, today, pcA, df, cleanFile, pdf>>

WriteSampleRow ==
    /\ pcB = "writing"
    /\ Len(sampleFile.rows) < Len(pdf.rows)
    /\ sampleFile' = [sampleFile EXCEPT
                        !.rows = Append(@, RenderRow(pdf.rows[Len(@) + 1], cols))]
    /\ UNCHANGED <<rawFile, today, pcA, df, cleanFile, pcB, pdf>>

CloseSample ==
    /\ pcB = "writing"
    /\ Len(sampleFile.rows) = Len(pdf.rows)
    /\ pcB' = "done"
    /\ UNCHANGED <<rawFile, today, pcA, df, cleanFile, pdf, sampleFile>>

WriteFailB ==
    /\ pcB \in {"to_csv", "writing"}
    /\ pcB' = "failed"
    /\ UNCHANGED <<rawFile, today, pcA, df, cleanFile, pdf, sampleFile>>

Next ==
    \/ ReadRaw
    \/ DropDuplicates
    \/ FillMissing
    \/ NormalizeNames
    \/ NormalizeEmail
    \/ CleanSalary
    \/ ParseDates
    \/ RemoveFutureHires
    \/ CalcAge
    \/ Tenure
    \/ SalaryBands
    \/ StampTimes
    \/ Project
    \/ OpenClean
    \/ WriteCleanRow
    \/ CloseClean
    \/ WriteFailA
    \/ ReadClean
    \/ SelectHead
    \/ OpenSample
    \/ WriteSampleRow
    \/ CloseSample
    \/ WriteFailB

Spec == Init /\ [][Next]_vars


\* ------------------------------------------------------------- properties
Txt_45000 == <<"$", "4", "5", ",", "0", "0", "0">>
Txt_90000 == <<"$", "9", "0", ",", "0", "0", "0">>
Key(r) == r["employee_id"]

\* out is exactly the first-occurrence rows of inp, in input order
FirstOccurrences(inp, out) ==
    /\ \A i, j \in DOMAIN out : i # j => Key(out[i]) # Key(out[j])
    /\ \A i \in DOMAIN inp : \E j \in DOMAIN out : Key(out[j]) = Key(inp[i])
    /\ \A j \in DOMAIN out :
          \E i \in DOMAIN inp :
             /\ out[j] = inp[i]
             /\ \A h \in 1..(i - 1) : Key(inp[h]) # Key(inp[i])
    /\ \A j, l \in DOMAIN out :
          j < l =>
             \E i, h \in DOMAIN inp : i < h /\ inp[i] = out[j] /\ inp[h] = out[l]

\* C1: the deduplication step leaves exactly the first-seen record of every
\* employee_id, with that record's own fields, in input order, no id twice.
C1_DedupKeepsFirst ==
    [][(pcA = "dedup" /\ pcA' = "fill") => FirstOccurrences(df.rows, df'.rows)]_vars

\* two rows share an id, salaries $45,000 then $90,000; the $45,000 row is left
C1_Witness ==
    /\ pcA = "fill"
    /\ Len(rawFile.rows) = 2
    /\ rawFile.rows[1]["employee_id"] = rawFile.rows[2]["employee_id"]
    /\ rawFile.rows[1]["salary"] = Txt_45000
    /\ rawFile.rows[2]["salary"] = Txt_90000
    /\ Len(df.rows) = 1
    /\ df.rows[1]["salary"] = Str(Txt_45000)

\* day count of a date, by years and months
RECURSIVE DaysBeforeMonth(_, _)
DaysBeforeMonth(y, m) == IF m = 1 THEN 0 ELSE DaysBeforeMonth(y, m - 1) + DaysInMonth(y, m - 1)
Ordinal(a) ==
    365 * (a[1] - 1) + (a[1] - 1) \div 4 - (a[1] - 1) \div 100 + (a[1] - 1) \div 400
      + DaysBeforeMonth(a[1], a[2]) + a[3]
NotAfterRun(h) == IsNA(h) \/ Ordinal(h.n) <= Ordinal(today)

\* C2: the future-hire filter keeps a record iff its parsed hire_date is
\* missing or not after the run date, keeps the survivors in order, and no
\* record of the finished output has a hire_date after the run date.
C2_FutureHireFilter ==
    /\ [][(pcA = "filter" /\ pcA' = "age") =>
            /\ \A i \in DOMAIN df.rows :
                  (\E j \in DOMAIN df'.rows : df'.rows[j] = df.rows[i])
                     <=> NotAfterRun(df.rows[i]["hire_date"])
            /\ \A j \in DOMAIN df'.rows : \E i \in DOMAIN df.rows : df.rows[i] = df'.rows[j]]_vars
    /\ [](pcA \in {"age", "tenure", "band", "stamp", "reindex", "to_csv", "writing", "done"}
            => \A j \in DOMAIN df.rows : NotAfterRun(df.rows[j]["hire_date"]))

\* of two distinct records, the one hired on the run date is kept and the one
\* hired the day after is dropped
C2_Witness ==
    /\ pcA = "age"
    /\ today = <<2024, 3, 14>>
    /\ Len(rawFile.rows) = 2
    /\ rawFile.rows[1]["employee_id"] # rawFile.rows[2]["employee_id"]
    /\ Len(df.rows) = 1
    /\ df.rows[1]["hire_date"] = Date(2024, 3, 14)
    /\ \E i \in DOMAIN rawFile.rows :
          rawFile.rows[i]["hire_date"] = <<"2", "0", "2", "4", "-", "0", "3", "-", "1", "5">>

Banded == {"stamp", "reindex", "to_csv", "writing", "done"}
BandText(r) == r["salary_band"].s[1]

\* C3: salary_band is Unknown exactly for a missing salary, Junior below 50000,
\* Mid from 50000 up to but excluding 80000, Senior from 80000.
C3_SalaryBand ==
    pcA \in Banded =>
       \A j \in DOMAIN df.rows :
          LET s == df.rows[j]["salary"]
              b == BandText(df.rows[j])
          IN /\ b \in {"Junior", "Mid", "Senior", "Unknown"}
             /\ (b = "Unknown") <=> IsNA(s)
             /\ ~IsNA(s) =>
                  /\ (b = "Junior") <=> Hundredths(s) < 5000000
                  /\ (b = "Mid") <=> (5000000 <= Hundredths(s) /\ Hundredths(s) < 8000000)
                  /\ (b = "Senior") <=> 8000000 <= Hundredths(s)

\* a table with a salary of exactly 50000 (Mid) and one of exactly 80000 (Senior)
C3_Witness ==
    /\ pcA = "done"
    /\ \E j \in DOMAIN df.rows :
          /\ ~IsNA(df.rows[j]["salary"])
          /\ Hundredths(df.rows[j]["salary"]) = 5000000
          /\ BandText(df.rows[j]) = "Mid"
    /\ \E j \in DOMAIN df.rows :
          /\ ~IsNA(df.rows[j]["salary"])
          /\ Hundredths(df.rows[j]["salary"]) = 8000000
          /\ BandText(df.rows[j]) = "Senior"

\* ---- raw rows seen from the output
IdCell(t) == IF t = <<>> THEN NA ELSE Str(t)
Raw(i) == rawFile.rows[i]
FirstIdx ==
    {i \in DOMAIN rawFile.rows :
        \A h \in 1..(i - 1) : Raw(h)["employee_id"] # Raw(i)["employee_id"]}
HasOut(i) == \E j \in DOMAIN df.rows : Key(df.rows[j]) = IdCell(Raw(i)["employee_id"])
OutOf(i) == df.rows[CHOOSE j \in DOMAIN df.rows : Key(df.rows[j]) = IdCell(Raw(i)["employee_id"])]

\* the salary and date texts of the inputs that do not parse (or are absent)
BadSalaryTexts == {<<>>, <<"a", "b", "c">>}
BadDateTexts ==
    {<<>>, <<"s", "o", "o", "n">>,
     <<"2", "0", "0", "0", "-", "0", "2", "-", "3", "0">>,
     <<"2", "0", "2", "4", "-", "1", "3", "-", "0", "1">>}
IsoDate(t) == <<DigitsVal(SubSeq(t, 1, 4)), DigitsVal(SubSeq(t, 6, 7)), DigitsVal(SubSeq(t, 9, 10))>>
FutureHire(i) ==
    /\ Raw(i)["hire_date"] \notin BadDateTexts
    /\ Ordinal(IsoDate(Raw(i)["hire_date"])) > Ordinal(today)
Degraded(i) ==
    \/ Raw(i)["salary"] \in BadSalaryTexts
    \/ Raw(i)["hire_date"] \in BadDateTexts
    \/ Raw(i)["birth_date"] \in BadDateTexts

\* the columns the transforms of Stage A index
Referenced == {"employee_id", "address", "city", "state", "zip_code", "status",
               "first_name", "last_name", "email", "salary", "hire_date", "birth_date"}
Projected == {"to_csv", "writing", "done"}

\* the fields of the output row of raw row i degrade one by one
DegradesPerField(i) ==
    LET r == Raw(i)
        o == OutOf(i)
    IN /\ (r["salary"] \in BadSalaryTexts) <=> IsNA(o["salary"])
       /\ (r["salary"] \in BadSalaryTexts) <=> (BandText(o) = "Unknown")
       /\ (r["hire_date"] \in BadDateTexts) <=> IsNA(o["hire_date"])
       /\ (r["hire_date"] \in BadDateTexts) <=> IsNA(o["tenure_years"])
       /\ (r["birth_date"] \in BadDateTexts) <=> IsNA(o["birth_date"])
       /\ (r["birth_date"] \in BadDateTexts) <=> IsNA(o["age"])
       /\ o["job_title"] = IdCell(r["job_title"])
       /\ o["manager_id"] = IdCell(r["manager_id"])
       /\ o["city"] = Str(r["city"])

\* C4 (as amended): no cell value makes a step of Stage A fail; every
\* first-occurrence record is in the output unless the future-hire filter
\* removed it; an unparsable or absent salary, hire_date or birth_date is
\* missing there with salary_band Unknown, tenure_years missing, age missing,
\* and the fields fed by the record's other inputs are not degraded.
C4_Degradation ==
    /\ [][(pcA' = "failed" /\ pcA \notin {"to_csv", "writing", "failed"})
            => (~rawFile.exists \/ ~(Referenced \subseteq Range(rawFile.header)))]_vars
    /\ [](pcA \in Projected =>
            \A i \in FirstIdx :
               /\ HasOut(i) <=> ~FutureHire(i)
               /\ HasOut(i) => DegradesPerField(i))

\* a finished run whose output holds a record with an unparsable salary and a
\* parsed birth_date, next to a record with a parsed salary and no birth_date
C4_Witness ==
    /\ pcA = "done"
    /\ \E i \in FirstIdx :
          /\ Raw(i)["salary"] = <<"a", "b", "c">>
          /\ HasOut(i)
          /\ IsNA(OutOf(i)["salary"])
          /\ BandText(OutOf(i)) = "Unknown"
          /\ ~IsNA(OutOf(i)["tenure_years"])
    /\ \E i \in FirstIdx :
          /\ Raw(i)["hire_date"] = <<"s", "o", "o", "n">>
          /\ HasOut(i)
          /\ IsNA(OutOf(i)["tenure_years"])
          /\ BandText(OutOf(i)) = "Mid"

\* C4 (as stated): every first-occurrence record with an unparsable or absent
\* salary, hire_date or birth_date is present in the output.
C4_Original ==
    pcA \in Projected => \A i \in FirstIdx : Degraded(i) => HasOut(i)

\* C5: an input whose header lacks columns does not make Stage A fail, and
\* the output carries the 22 fixed columns, the absent ones entirely missing.
C5_MissingColumnsTolerated ==
    /\ [][(rawFile.exists /\ pcA \notin {"to_csv", "writing", "failed"}) => pcA' # "failed"]_vars
    /\ [](pcA = "done" =>
            /\ cleanFile.header = final_cols
            /\ \A c \in Range(RawCols) \ Range(rawFile.header) :
                  \A j \in DOMAIN cleanFile.rows : cleanFile.rows[j][c] = <<>>)

\* C6: a run that fails persists nothing, a run that completes persists its
\* whole output, and Stage B never loads the file of a failed run.
C6_AllOrNothing ==
    /\ pcA = "failed" => ~cleanFile.exists
    /\ pcA = "done" => (cleanFile.exists /\ Len(cleanFile.rows) = Len(df.rows))
    /\ pcB = "failed" => ~sampleFile.exists
    /\ pcB = "done" => (sampleFile.exists /\ Len(sampleFile.rows) = Len(pdf.rows))
    /\ pcB \in {"select", "to_csv", "writing", "done"} => pcA = "done"

Min(a, b) == IF a < b THEN a ELSE b

\* C7: the sample file holds the first min(n, 10) rows of the cleaned file, in
\* file order, restricted to the 8 sample columns, and no employee_id twice.
C7_SampleIsHead ==
    pcB = "done" =>
       /\ sampleFile.header = cols
       /\ Len(sampleFile.rows) = Min(Len(cleanFile.rows), 10)
       /\ \A i \in DOMAIN sampleFile.rows :
             \A c \in Range(cols) : sampleFile.rows[i][c] = cleanFile.rows[i][c]
       /\ \A i, j \in DOMAIN sampleFile.rows :
             i # j => sampleFile.rows[i]["employee_id"] # sampleFile.rows[j]["employee_id"]

Aged == {"tenure", "band", "stamp", "reindex", "to_csv", "writing", "done"}
ExpectedAge(b) ==
    today[1] - b[1]
      - (IF today[2] < b[2] \/ (today[2] = b[2] /\ today[3] < b[3]) THEN 1 ELSE 0)

\* C8: age is missing when birth_date is missing, otherwise the year
\* difference to the run date, less 1 exactly when (month, day) of the run
\* date is before (month, day) of the birth date; 2000-03-15 gives 23 on
\* 2024-03-14 and 24 on 2024-03-15.
C8_Age ==
    pcA \in Aged =>
       \A j \in DOMAIN df.rows :
          LET b == df.rows[j]["birth_date"]
              a == df.rows[j]["age"]
          IN /\ IsNA(b) => IsNA(a)
             /\ ~IsNA(b) => (~IsNA(a) /\ Hundredths(a) = 100 * ExpectedAge(b.n))
             /\ (b = Date(2000, 3, 15) /\ today = <<2024, 3, 14>>) => Hundredths(a) = 2300
             /\ (b = Date(2000, 3, 15) /\ today = <<2024, 3, 15>>) => Hundredths(a) = 2400

\* on 2024-03-15 a record born 2000-03-15 has age 24 and one without a
\* birth_date has no age
C8_Witness ==
    /\ pcA = "tenure"
    /\ today = <<2024, 3, 15>>
    /\ \E j \in DOMAIN df.rows :
          df.rows[j]["birth_date"] = Date(2000, 3, 15) /\ Hundredths(df.rows[j]["age"]) = 2400
    /\ \E j \in DOMAIN df.rows :
          IsNA(df.rows[j]["birth_date"]) /\ IsNA(df.rows[j]["age"])

Tenured == {"band", "stamp", "reindex", "to_csv", "writing", "done"}
Abs(n) == IF n < 0 THEN -n ELSE n

\* C9: tenure_years is missing when hire_date is missing, otherwise the days
\* from hire_date to the run date over 365.25 to the nearest tenth, never
\* negative; 2020-01-01 on 2024-01-01 gives 4.0.
C9_Tenure ==
    pcA \in Tenured =>
       \A j \in DOMAIN df.rows :
          LET h == df.rows[j]["hire_date"]
              t == df.rows[j]["tenure_years"]
          IN /\ IsNA(h) => IsNA(t)
             /\ ~IsNA(h) =>
                  /\ t.k = "num"
                  /\ t.n[1] >= 0
                  /\ t.n[1] % 10 = 0
                  /\ 2 * Abs(36525 * (t.n[1] \div 10) - 1000 * (Ordinal(today) - Ordinal(h.n))) <= 36525
             /\ (h = Date(2020, 1, 1) /\ today = <<2024, 1, 1>>) => t.n[1] = 400

\* on 2024-01-01 a record hired 2020-01-01 has tenure 4.0
C9_Witness ==
    /\ pcA = "done"
    /\ today = <<2024, 1, 1>>
    /\ \E j \in DOMAIN df.rows :
          df.rows[j]["hire_date"] = Date(2020, 1, 1) /\ df.rows[j]["tenure_years"] = Num(400)
    /\ \E j \in DOMAIN df.rows :
          ~IsNA(df.rows[j]["hire_date"]) /\ df.rows[j]["tenure_years"].n[1] \notin {0, 400}

AfterFirstAt(t) ==
    IF \E i \in DOMAIN t : t[i] = "@"
    THEN SubSeq(t, (CHOOSE i \in DOMAIN t : t[i] = "@" /\ \A h \in 1..(i - 1) : t[h] # "@") + 1, Len(t))
    ELSE <<>>
Emailed == {"salary", "dates", "filter"}

\* C10: a record with no email keeps a missing email and an empty
\* email_domain; a present email is trimmed and lower-cased and email_domain is
\* what follows its first "@", or empty without one.
C10_Email ==
    pcA \in Emailed =>
       \A i \in FirstIdx :
          LET e == Raw(i)["email"]
              o == OutOf(i)
          IN IF e = <<>>
             THEN IsNA(o["email"]) /\ o["email_domain"] = Str(<<>>)
             ELSE /\ o["email"] = Str(LowerText(StripText(e)))
                  /\ o["email_domain"] = Str(AfterFirstAt(o["email"].s))

====
